---- MODULE Spec2Model ----
(***************************************************************************)
(* HighLite Crypto Tracker (src/app.js): one page session modelled as a    *)
(* state machine.  The module-level variables of app.js and the DOM        *)
(* properties its handlers read and write are the state; each event        *)
(* handler and each continuation of the async fetchAssets() is one action. *)
(***************************************************************************)
EXTENDS Integers, Sequences, FiniteSets, TLC

\* ------------------------------------------------------------------ bounds
MaxLen == 2      \* longest response body (number of asset records)
MaxPrice == 1    \* largest current_price in a response

\* ------------------------------------------------------------ JS numbers
\* A JS number as far as the handlers need it: a finite integer, NaN or
\* +Infinity.
Num(n) == [kind |-> "num", val |-> n]
NaN == [kind |-> "nan", val |-> 0]
Infinity == [kind |-> "inf", val |-> 0]

\* a >= b and a <= b for a finite price a and a bound b (never NaN here)
Geq(a, b) == IF b.kind = "inf" THEN FALSE ELSE a >= b.val
Leq(a, b) == IF b.kind = "inf" THEN TRUE ELSE a <= b.val

\* --------------------------------------------------------- input texts
\* The value of a text input is a sequence of characters.
Digits == {"0", "1", "2", "3", "4", "5", "6", "7", "8", "9"}

DigitVal(c) ==
    CASE c = "0" -> 0 [] c = "1" -> 1 [] c = "2" -> 2 [] c = "3" -> 3
      [] c = "4" -> 4 [] c = "5" -> 5 [] c = "6" -> 6 [] c = "7" -> 7
      [] c = "8" -> 8 [] c = "9" -> 9

\* values the user can leave in a bound input
InputTexts == {<< >>, <<"a">>, <<"0">>, <<"1">>, <<"1", "a">>}

RECURSIVE DigitRun(_, _)
\* number of leading digits of s from position i on
DigitRun(s, i) ==
    IF i > Len(s) \/ s[i] \notin Digits THEN 0 ELSE 1 + DigitRun(s, i + 1)

RECURSIVE DecimalValue(_, _)
\* value of the first n characters of s read as a decimal numeral
DecimalValue(s, n) ==
    IF n = 0 THEN 0 ELSE 10 * DecimalValue(s, n - 1) + DigitVal(s[n])

\* parseFloat on a string of digits and letters: the longest numeral prefix
\* is converted, trailing garbage is ignored, no numeral prefix gives NaN.
parseFloat(s) ==
    LET n == DigitRun(s, 1)
    IN IF n = 0 THEN NaN ELSE Num(DecimalValue(s, n))

\* x || d : NaN and 0 are falsy
OrElse(x, d) == IF x.kind = "nan" \/ (x.kind = "num" /\ x.val = 0) THEN d ELSE x

\* const min = parseFloat(minPriceInput.value) || 0;
MinBound(text) == OrElse(parseFloat(text), Num(0))
\* const max = parseFloat(maxPriceInput.value) || Infinity;
MaxBound(text) == OrElse(parseFloat(text), Infinity)

\* ------------------------------------------------------------ asset data
Null == [kind |-> "null", val |-> 0]
\* price_change_percentage_24h is a number or null in a response
Changes == {Num(1), Null}

Asset(i, p, c) == [id |-> i, current_price |-> p, price_change_percentage_24h |-> c]

\* response bodies: record i of a body carries id i
Bodies ==
    UNION {{[i \in 1..n |-> Asset(i, ps[i], cs[i])] :
                ps \in [1..n -> 0..MaxPrice], cs \in [1..n -> Changes]} :
           n \in 0..MaxLen}

\* ------------------------------------------------------ filter and sort
\* asset => asset.current_price >= min && asset.current_price <= max
InRange(asset, min, max) ==
    Geq(asset.current_price, min) /\ Leq(asset.current_price, max)

RECURSIVE FilterByPrice(_, _, _)
\* assets.filter(...): a new array, the kept elements in their order
FilterByPrice(list, min, max) ==
    IF list = << >> THEN << >>
    ELSE LET rest == FilterByPrice(Tail(list), min, max)
         IN IF InRange(Head(list), min, max) THEN <<Head(list)>> \o rest ELSE rest

\* the comparators handed to Array.prototype.sort
CompareFn(order, a, b) ==
    IF order = "asc" THEN a.current_price - b.current_price
    ELSE b.current_price - a.current_price

RECURSIVE InsertSortedBeforeEquals(_, _, _)
\* x goes in front of the elements that compare equal to it
InsertSortedBeforeEquals(order, sorted, x) ==
    IF sorted = << >> THEN <<x>>
    ELSE IF CompareFn(order, Head(sorted), x) < 0
         THEN <<Head(sorted)>> \o InsertSortedBeforeEquals(order, Tail(sorted), x)
         ELSE <<x>> \o sorted

RECURSIVE InsertSorted(_, _, _)
\* x goes behind every element that does not compare greater than it
InsertSorted(order, sorted, x) ==
    IF sorted = << >> THEN <<x>>
    ELSE IF CompareFn(order, Head(sorted), x) <= 0
         THEN <<Head(sorted)>> \o InsertSorted(order, Tail(sorted), x)
         ELSE <<x>> \o sorted

RECURSIVE SortBy(_, _)
\* Array.prototype.sort with a comparator: a stable sort
SortBy(order, list) ==
    IF list = << >> THEN << >>
    ELSE InsertSorted(order, SortBy(order, SubSeq(list, 1, Len(list) - 1)),
                      list[Len(list)])

\* the value of displayAssets when applyFiltersAndSort() reaches renderAssets()
ComputeDisplay(base, minText, maxText, order) ==
    LET min == MinBound(minText)
        max == MaxBound(maxText)
        filtered == FilterByPrice(base, min, max)
    IN IF order = "asc" \/ order = "desc" THEN SortBy(order, filtered)
       ELSE FilterByPrice(base, min, max)

\* the base list itself is sorted in place
BaseSortedInPlace(base, minText, maxText, order) ==
    IF order = "asc" \/ order = "desc" THEN SortBy(order, base) ELSE base

\* the value of assets when applyFiltersAndSort() returns: filter() built a
\* new array, so the in-place sort works on that copy
BaseAfterApply(base, minText, maxText, order) == base

\* ---------------------------------------------------------------- render
EmptyMessage == [kind |-> "message", id |-> 0, colorClass |-> "", sign |-> ""]

Card(asset) ==
    LET priceChange == asset.price_change_percentage_24h
    IN [kind |-> "card", id |-> asset.id,
        colorClass |-> IF priceChange.val >= 0 THEN "positive" ELSE "negative",
        sign |-> IF priceChange.val >= 0 THEN "+" ELSE ""]

\* priceChange.toFixed(2) on null raises a TypeError
CardThrows(asset) == asset.price_change_percentage_24h = Null

RECURSIVE RenderCards(_)
\* displayAssets.forEach(...): the cards appended until an asset throws
RenderCards(display) ==
    IF display = << >> THEN [cards |-> << >>, threw |-> FALSE]
    ELSE IF CardThrows(Head(display)) THEN [cards |-> << >>, threw |-> TRUE]
         ELSE LET rest == RenderCards(Tail(display))
              IN [cards |-> <<Card(Head(display))>> \o rest.cards,
                  threw |-> rest.threw]

\* renderAssets(): the children of the grid afterwards, and whether it threw
RenderAssets(display) ==
    IF Len(display) = 0 THEN [cards |-> <<EmptyMessage>>, threw |-> FALSE]
    ELSE RenderCards(display)

\* ----------------------------------------------------------------- theme
NoTheme == "absent"   \* localStorage.getItem gives null

\* an assignment in place of the comparison
NewThemeAssigned(currentTheme) == "dark"

\* const newTheme = currentTheme === 'light' ? 'dark' : 'light';
NewTheme(currentTheme) == IF currentTheme = "light" THEN "dark" ELSE "light"

\* the theme state after toggleTheme()
ToggleThemeOf(t) ==
    LET newTheme == NewTheme(t.dataTheme)
    IN [dataTheme |-> newTheme, storedTheme |-> newTheme,
        sunHidden |-> (newTheme = "dark"), moonHidden |-> (newTheme # "dark")]

\* ------------------------------------------------------------------ sort
\* a rotation that never comes back to default
NextSortOrderNoDefault(order) ==
    IF order = "default" THEN "desc"
    ELSE IF order = "desc" THEN "asc" ELSE "desc"

\* the rotation of cycleSort()
NextSortOrder(order) ==
    IF order = "default" THEN "desc"
    ELSE IF order = "desc" THEN "asc" ELSE "default"

CycleLabel(order) ==
    IF order = "default" THEN "Sort: High to Low"
    ELSE IF order = "desc" THEN "Sort: Low to High" ELSE "Sort: Default"

ErrorMessage == "Could not fetch crypto data. Please check your connection or try again later."

\* the document as the page's markup delivers it, before any script runs
InitialDOM ==
    [sortLabel |-> "Sort: Default", dataTheme |-> "light",
     sunHidden |-> FALSE, moonHidden |-> TRUE,
     loaderHidden |-> TRUE, gridHidden |-> FALSE, errorHidden |-> TRUE,
     errorText |-> "", minPrice |-> << >>, maxPrice |-> << >>,
     gridCards |-> << >>]

\* ----------------------------------------------------------------- state
VARIABLES
    assets,            \* let assets
    displayAssets,     \* let displayAssets
    sortOrder,         \* let sortOrder
    sortLabel,         \* sortLabel.textContent
    minPriceInput,     \* minPriceInput.value
    maxPriceInput,     \* maxPriceInput.value
    gridCards,         \* children of assetGrid
    dataTheme,         \* body data-theme attribute
    storedTheme,       \* localStorage 'highlite-theme'
    sunHidden,         \* sunIcon has class hidden
    moonHidden,        \* moonIcon has class hidden
    loaderHidden,      \* loader has class hidden
    gridHidden,        \* assetGrid has class hidden
    errorHidden,       \* errorContainer has class hidden
    errorText,         \* errorText.textContent
    pc,                \* where the page session stands in init()/fetchAssets()
    fetchesStarted,    \* calls of fetchAssets() so far
    inFlight,          \* calls of fetchAssets() not yet completed
    assetsAtFetchStart,\* assets when the current fetchAssets() call began
    lastOp             \* the handler or continuation that ran last

vars == <<assets, displayAssets, sortOrder, sortLabel, minPriceInput,
          maxPriceInput, gridCards, dataTheme, storedTheme, sunHidden,
          moonHidden, loaderHidden, gridHidden, errorHidden, errorText, pc,
          fetchesStarted, inFlight, assetsAtFetchStart, lastOp>>

themeVars == <<dataTheme, storedTheme, sunHidden, moonHidden>>
filterVars == <<sortOrder, sortLabel, minPriceInput, maxPriceInput>>
listVars == <<assets, displayAssets, gridCards>>
statusVars == <<loaderHidden, gridHidden, errorHidden, errorText>>
fetchVars == <<pc, fetchesStarted, inFlight, assetsAtFetchStart>>

Init ==
    /\ assets = << >>
    /\ displayAssets = << >>
    /\ sortOrder = "default"
    /\ sortLabel = InitialDOM.sortLabel
    /\ minPriceInput = InitialDOM.minPrice
    /\ maxPriceInput = InitialDOM.maxPrice
    /\ gridCards = InitialDOM.gridCards
    /\ dataTheme = InitialDOM.dataTheme
    /\ storedTheme \in {NoTheme, "light", "dark"}
    /\ sunHidden = InitialDOM.sunHidden
    /\ moonHidden = InitialDOM.moonHidden
    /\ loaderHidden = InitialDOM.loaderHidden
    /\ gridHidden = InitialDOM.gridHidden
    /\ errorHidden = InitialDOM.errorHidden
    /\ errorText = InitialDOM.errorText
    /\ pc = "loading"
    /\ fetchesStarted = 0
    /\ inFlight = 0
    /\ assetsAtFetchStart = << >>
    /\ lastOp = "load"

\* --------------------------------------------------------------- helpers
\* the list, the filter inputs and the sort control as one value
View ==
    [assets |-> assets, displayAssets |-> displayAssets, gridCards |-> gridCards,
     sortOrder |-> sortOrder, sortLabel |-> sortLabel,
     minPriceInput |-> minPriceInput, maxPriceInput |-> maxPriceInput]

\* the handler leaves the view v behind
SetView(v) ==
    /\ assets' = v.assets
    /\ displayAssets' = v.displayAssets
    /\ gridCards' = v.gridCards
    /\ sortOrder' = v.sortOrder
    /\ sortLabel' = v.sortLabel
    /\ minPriceInput' = v.minPriceInput
    /\ maxPriceInput' = v.maxPriceInput

\* the view after applyFiltersAndSort()
ApplyFiltersAndSortOf(v) ==
    LET display == ComputeDisplay(v.assets, v.minPriceInput, v.maxPriceInput, v.sortOrder)
    IN [v EXCEPT !.displayAssets = display,
                 !.assets = BaseAfterApply(v.assets, v.minPriceInput,
                                           v.maxPriceInput, v.sortOrder),
                 !.gridCards = RenderAssets(display).cards]

\* the view after cycleSort()
CycleSortOf(v) ==
    ApplyFiltersAndSortOf([v EXCEPT !.sortOrder = NextSortOrder(v.sortOrder),
                                    !.sortLabel = CycleLabel(v.sortOrder)])

\* clearFilters() that leaves the sort order alone
ClearFiltersKeepsSort(v) ==
    ApplyFiltersAndSortOf([v EXCEPT !.minPriceInput = << >>,
                                    !.maxPriceInput = << >>,
                                    !.sortLabel = "Sort: Default"])

\* the view after clearFilters()
ClearFiltersOf(v) ==
    ApplyFiltersAndSortOf([v EXCEPT !.minPriceInput = << >>,
                                    !.maxPriceInput = << >>,
                                    !.sortOrder = "default",
                                    !.sortLabel = "Sort: Default"])

\* showLoader(); hideError();
ShowLoaderHideError ==
    /\ loaderHidden' = FALSE
    /\ gridHidden' = TRUE
    /\ errorHidden' = TRUE
    /\ UNCHANGED errorText

\* hideLoader() at the end of the try block in place of the finally block
CatchNoFinally(threw) ==
    /\ IF threw
       THEN /\ errorText' = ErrorMessage /\ errorHidden' = FALSE
            /\ UNCHANGED <<loaderHidden, gridHidden>>
       ELSE /\ UNCHANGED <<errorText, errorHidden>>
            /\ loaderHidden' = TRUE /\ gridHidden' = FALSE

\* the catch block (when `threw`) followed by the finally block
CatchFinally(threw) ==
    /\ IF threw
       THEN errorText' = ErrorMessage /\ errorHidden' = FALSE
       ELSE UNCHANGED <<errorText, errorHidden>>
    /\ loaderHidden' = TRUE
    /\ gridHidden' = FALSE

\* fetchAssets() ends
FetchEnds ==
    /\ pc' = "done"
    /\ inFlight' = inFlight - 1
    /\ UNCHANGED <<fetchesStarted, assetsAtFetchStart>>

\* ---------------------------------------------------------------- actions
\* DOMContentLoaded: init(), and fetchAssets() up to `await fetch(API_URL)`
DOMContentLoaded ==
    /\ pc = "loading"
    /\ IF storedTheme = "dark"
       THEN dataTheme' = "dark" /\ sunHidden' = TRUE /\ moonHidden' = FALSE
       ELSE UNCHANGED <<dataTheme, sunHidden, moonHidden>>
    /\ ShowLoaderHideError
    /\ pc' = "awaitFetch"
    /\ fetchesStarted' = fetchesStarted + 1
    /\ inFlight' = inFlight + 1
    /\ assetsAtFetchStart' = assets
    /\ lastOp' = "init"
    /\ UNCHANGED <<storedTheme, filterVars, listVars>>

\* fetch() rejects: network failure
FetchRejected ==
    /\ pc = "awaitFetch"
    /\ CatchFinally(TRUE)
    /\ FetchEnds
    /\ lastOp' = "fetchRejected"
    /\ UNCHANGED <<themeVars, filterVars, listVars>>

\* fetch() resolves with a response; !response.ok throws
FetchResponded(ok) ==
    /\ pc = "awaitFetch"
    /\ IF ok
       THEN /\ pc' = "awaitJson"
            /\ UNCHANGED <<statusVars, fetchesStarted, inFlight, assetsAtFetchStart>>
       ELSE /\ CatchFinally(TRUE)
            /\ FetchEnds
    /\ lastOp' = IF ok THEN "responseOk" ELSE "responseNotOk"
    /\ UNCHANGED <<themeVars, filterVars, listVars>>

\* response.json() rejects: the body does not parse
JsonRejected ==
    /\ pc = "awaitJson"
    /\ CatchFinally(TRUE)
    /\ FetchEnds
    /\ lastOp' = "jsonRejected"
    /\ UNCHANGED <<themeVars, filterVars, listVars>>

\* response.json() resolves: assets = data; applyFiltersAndSort();
JsonResolved(data) ==
    /\ pc = "awaitJson"
    /\ SetView(ApplyFiltersAndSortOf([View EXCEPT !.assets = data]))
    /\ CatchFinally(RenderAssets(displayAssets').threw)
    /\ FetchEnds
    /\ lastOp' = "jsonResolved"
    /\ UNCHANGED themeVars

\* 'input' on #min-price: the user left `text` in the field
InputMinPrice(text) ==
    /\ pc # "loading"
    /\ SetView(ApplyFiltersAndSortOf([View EXCEPT !.minPriceInput = text]))
    /\ lastOp' = "inputMin"
    /\ UNCHANGED <<themeVars, statusVars, fetchVars>>

\* 'input' on #max-price
InputMaxPrice(text) ==
    /\ pc # "loading"
    /\ SetView(ApplyFiltersAndSortOf([View EXCEPT !.maxPriceInput = text]))
    /\ lastOp' = "inputMax"
    /\ UNCHANGED <<themeVars, statusVars, fetchVars>>

\* a sort click that fetches again
CycleSortRefetch ==
    /\ pc # "loading"
    /\ SetView([View EXCEPT !.sortOrder = NextSortOrder(sortOrder),
                            !.sortLabel = CycleLabel(sortOrder)])
    /\ ShowLoaderHideError
    /\ pc' = "awaitFetch"
    /\ fetchesStarted' = fetchesStarted + 1
    /\ inFlight' = inFlight + 1
    /\ assetsAtFetchStart' = assets
    /\ lastOp' = "cycleSort"
    /\ UNCHANGED themeVars

\* click on #sort-btn
CycleSort ==
    /\ pc # "loading"
    /\ SetView(CycleSortOf(View))
    /\ lastOp' = "cycleSort"
    /\ UNCHANGED <<themeVars, statusVars, fetchVars>>

\* click on #clear-btn
ClearFilters ==
    /\ pc # "loading"
    /\ SetView(ClearFiltersOf(View))
    /\ lastOp' = "clearFilters"
    /\ UNCHANGED <<themeVars, statusVars, fetchVars>>

Theme == [dataTheme |-> dataTheme, storedTheme |-> storedTheme,
          sunHidden |-> sunHidden, moonHidden |-> moonHidden]

\* click on #theme-toggle
ToggleTheme ==
    /\ pc # "loading"
    /\ LET t == ToggleThemeOf(Theme)
       IN /\ dataTheme' = t.dataTheme
          /\ storedTheme' = t.storedTheme
          /\ sunHidden' = t.sunHidden
          /\ moonHidden' = t.moonHidden
    /\ lastOp' = "toggleTheme"
    /\ UNCHANGED <<filterVars, listVars, statusVars, fetchVars>>

Next ==
    \/ DOMContentLoaded
    \/ FetchRejected
    \/ \E ok \in BOOLEAN : FetchResponded(ok)
    \/ JsonRejected
    \/ \E data \in Bodies : JsonResolved(data)
    \/ \E text \in InputTexts : InputMinPrice(text)
    \/ \E text \in InputTexts : InputMaxPrice(text)
    \/ CycleSort
    \/ ClearFilters
    \/ ToggleTheme

Spec == Init /\ [][Next]_vars

TypeOK ==
    /\ sortOrder \in {"default", "asc", "desc"}
    /\ pc \in {"loading", "awaitFetch", "awaitJson", "done"}
    /\ minPriceInput \in InputTexts
    /\ maxPriceInput \in InputTexts

\* ------------------------------------------------------ claim vocabulary
Range(seq) == {seq[i] : i \in 1..Len(seq)}

\* position of the record with id `i` in the base list
BaseIndex(i) == CHOOSE k \in 1..Len(assets) : assets[k].id = i

Count(seq, x) == Cardinality({i \in 1..Len(seq) : seq[i] = x})

IsPermutationOf(a, b) ==
    /\ Len(a) = Len(b)
    /\ \A x \in Range(a) \cup Range(b) : Count(a, x) = Count(b, x)

\* the bounds as the specification reads the inputs: a text with no number
\* in it is no bound, every number is taken as entered
ClaimedMin(text) == IF parseFloat(text).kind = "nan" THEN Num(0) ELSE parseFloat(text)
ClaimedMax(text) == IF parseFloat(text).kind = "nan" THEN Infinity ELSE parseFloat(text)

ClaimedInRange(asset) ==
    /\ Geq(asset.current_price, ClaimedMin(minPriceInput))
    /\ Leq(asset.current_price, ClaimedMax(maxPriceInput))

InBaseOrder(seq) ==
    \A i, j \in 1..Len(seq) : i < j => BaseIndex(seq[i].id) < BaseIndex(seq[j].id)

NonDecreasing(seq) ==
    \A i, j \in 1..Len(seq) : i < j => seq[i].current_price <= seq[j].current_price

NonIncreasing(seq) ==
    \A i, j \in 1..Len(seq) : i < j => seq[i].current_price >= seq[j].current_price

\* equal prices keep the order of the base list
TiesInBaseOrder(seq) ==
    \A i, j \in 1..Len(seq) :
        (i < j /\ seq[i].current_price = seq[j].current_price)
            => BaseIndex(seq[i].id) < BaseIndex(seq[j].id)

\* the filtered subset that step 1 of applyFiltersAndSort() hands to step 2
FilteredSubset ==
    FilterByPrice(assets, MinBound(minPriceInput), MaxBound(maxPriceInput))

\* absent is read as light
EffectiveTheme(stored) == IF stored = NoTheme THEN "light" ELSE stored

\* ---------------------------------------------------------------- claims

\* C1: under sort mode 'default' the display list is the base list filtered
\* by min <= current_price <= max in base order, a text without a number
\* being no bound and every numeric bound, 0 included, applied as entered.
C1_DefaultDisplayIsRangeFilter ==
    sortOrder = "default"
        => displayAssets = SelectSeq(assets, ClaimedInRange)

\* C2: whenever fetchAssets() has ended with the error banner visible, the
\* base list equals its value at the start of that call.
C2_FailedFetchKeepsBase ==
    (pc = "done" /\ ~errorHidden) => assets = assetsAtFetchStart

\* C3: from sort mode 'default', three cycleSort() calls in a row pass
\* through desc and asc back to default and leave the sort mode, the label
\* and the display list as they were.
C3_ThreeCyclesReturn ==
    sortOrder = "default" =>
        LET v1 == CycleSortOf(View)
            v2 == CycleSortOf(v1)
            v3 == CycleSortOf(v2)
        IN /\ v1.sortOrder = "desc"
           /\ v2.sortOrder = "asc"
           /\ v3.sortOrder = sortOrder
           /\ v3.sortLabel = sortLabel
           /\ v3.displayAssets = displayAssets
           /\ InBaseOrder(v3.displayAssets)

C3_Witness ==
    /\ lastOp = "cycleSort"
    /\ sortOrder = "default"
    /\ Len(displayAssets) = 2
    /\ displayAssets[1].current_price < displayAssets[2].current_price
    /\ CycleSortOf(View).displayAssets # displayAssets

\* C4: after clearFilters() both bound inputs are empty, the sort mode is
\* 'default', the label is "Sort: Default" and the display list is the full
\* base list in base order.
C4_ClearResets ==
    lastOp = "clearFilters" =>
        /\ minPriceInput = << >>
        /\ maxPriceInput = << >>
        /\ sortOrder = "default"
        /\ sortLabel = "Sort: Default"
        /\ displayAssets = assets

C4_Witness ==
    /\ lastOp = "clearFilters"
    /\ Len(assets) = 2
    /\ assets[1].current_price < assets[2].current_price

\* C5: while a fetchAssets() call is outstanding the loader is visible and
\* the grid hidden; once it has completed, whatever the outcome, the loader
\* is hidden and the grid shown.
C5_LoaderFollowsFetch ==
    /\ pc \in {"awaitFetch", "awaitJson"} => (~loaderHidden /\ gridHidden)
    /\ pc = "done" => (loaderHidden /\ ~gridHidden)

C5_Witness ==
    /\ lastOp = "jsonResolved"
    /\ pc = "done"
    /\ ~errorHidden
    /\ loaderHidden

\* C6: in mode 'asc' the display list is a permutation of the filtered subset
\* with prices non-decreasing, in mode 'desc' a permutation with prices
\* non-increasing, and in both modes equal prices keep their base order.
C6_SortedStablePermutation ==
    /\ sortOrder = "asc" =>
          /\ IsPermutationOf(displayAssets, FilteredSubset)
          /\ NonDecreasing(displayAssets)
          /\ TiesInBaseOrder(displayAssets)
    /\ sortOrder = "desc" =>
          /\ IsPermutationOf(displayAssets, FilteredSubset)
          /\ NonIncreasing(displayAssets)
          /\ TiesInBaseOrder(displayAssets)

C6_Witness ==
    /\ sortOrder = "desc"
    /\ lastOp = "cycleSort"
    /\ Len(displayAssets) = 2
    /\ displayAssets[1].current_price = displayAssets[2].current_price

\* C7: after init(), toggleTheme() twice brings the data-theme attribute and
\* the icon visibility back, and the persisted theme back to what it was,
\* an absent value counting as light.
C7_ToggleTwiceReturns ==
    pc # "loading" =>
        LET t2 == ToggleThemeOf(ToggleThemeOf(Theme))
        IN /\ t2.dataTheme = dataTheme
           /\ t2.sunHidden = sunHidden
           /\ t2.moonHidden = moonHidden
           /\ EffectiveTheme(t2.storedTheme) = EffectiveTheme(storedTheme)

C7_Witness ==
    /\ lastOp = "toggleTheme"
    /\ storedTheme = "light"
    /\ dataTheme = "light"

\* C8: every element of the display list is in the base list and within the
\* bounds currently in the inputs, and the display list is in base order
\* under 'default', ascending under 'asc', descending under 'desc'.
C8_DisplayInvariant ==
    /\ \A a \in Range(displayAssets) : a \in Range(assets) /\ ClaimedInRange(a)
    /\ sortOrder = "default" => InBaseOrder(displayAssets)
    /\ sortOrder = "asc" => NonDecreasing(displayAssets)
    /\ sortOrder = "desc" => NonIncreasing(displayAssets)

\* C9: fetchAssets() is started once per page session, by init, and no
\* handler starts another, so at most one fetch is outstanding.
C9_SingleFetch ==
    /\ fetchesStarted <= 1
    /\ inFlight <= 1
    /\ pc # "loading" => fetchesStarted = 1
    /\ inFlight = 1 <=> pc \in {"awaitFetch", "awaitJson"}

C9_Witness ==
    /\ pc = "awaitJson"
    /\ inFlight = 1
    /\ lastOp = "cycleSort"

\* C10: the base list changes only when a fetched body replaces it; every
\* other handler, the sorting ones included, leaves its contents and order
\* as they were.
C10_BaseOnlyReplacedByFetch ==
    [][assets' # assets =>
          (pc = "awaitJson" /\ lastOp' = "jsonResolved" /\ assets' \in Bodies)]_vars

C10_Witness ==
    /\ lastOp = "cycleSort"
    /\ sortOrder = "desc"
    /\ Len(assets) = 2
    /\ displayAssets = <<assets[2], assets[1]>>

====
